---- MODULE Spec2Model ----
(***************************************************************************)
(* Model of the package installer front-end: the application model         *)
(* (package, is_installed), the file-picker command started by SelectFile, *)
(* and the grant_permissions / install_file futures started by             *)
(* AskPermissions.  Every await of a future is one step; the message a     *)
(* finished future yields is delivered to update() in a later step, so     *)
(* other messages may be processed in between.  The futures the executor   *)
(* holds are kept as bags: picks for SelectFile, flows for AskPermissions. *)
(***************************************************************************)
EXTENDS Naturals, Sequences, FiniteSets, Bags

VARIABLES package, is_installed, pid, picks, flows

vars == <<package, is_installed, pid, picks, flows>>

\* ---------------------------------------------------------------- bounds
MaxPicks == 2       \* SelectFile presses modelled
MaxFlows == 2       \* AskPermissions presses modelled
MaxPathLen == 3     \* longest URI path the picker returns (characters)

\* ---------------------------------------------------------------- values
None == [tag |-> "None"]
Some(x) == [tag |-> "Some", val |-> x]

Alphabet == {"/", "a", "b"}

\* Paths of file URIs: absolute, at most MaxPathLen characters.
UriPaths == {s \in UNION {[1..k -> Alphabet] : k \in 1..MaxPathLen} : s[1] = "/"}

\* The two files the install flows are exercised with.
FilePaths == {<<"/", "a">>, <<"/", "b">>}

\* ------------------------------------------------- Path::file_name, as used
\* Variant: the text after the last "/" is taken, trailing separators are
\* not skipped.
file_name_NoTrailingSeparator(path) ==
    LET starts == {i \in 1..(Len(path) + 1) : \A j \in i..Len(path) : path[j] # "/"}
        st == CHOOSE i \in starts : \A j \in starts : i <= j
        seg == SubSeq(path, st, Len(path))
    IN  IF seg \in {<<>>, <<".">>, <<".", ".">>} THEN None ELSE Some(seg)

RECURSIVE file_name(_)
file_name(path) ==
    IF path = <<>> THEN None
    ELSE IF path[Len(path)] = "/" THEN file_name(SubSeq(path, 1, Len(path) - 1))
    ELSE LET starts == {i \in 1..Len(path) : \A j \in i..Len(path) : path[j] # "/"}
             st == CHOOSE i \in starts : \A j \in starts : i <= j
             seg == SubSeq(path, st, Len(path))
         IN  IF seg = <<".">>
               THEN IF st = 1 THEN None ELSE file_name(SubSeq(path, 1, st - 1))
             ELSE IF seg = <<".", ".">> THEN None
             ELSE Some(seg)

\* The Package record the SelectFile future builds from the first URI.
PackageFromUri(path) ==
    LET os_filename == file_name(path)
        name == IF os_filename = None THEN <<>> ELSE os_filename.val
    IN  [path |-> path, name |-> name, is_installed |-> FALSE]

\* What the SelectFile future returns for a portal response.
SelectFileResult(resp) ==
    IF resp.kind = "ok"
      THEN IF resp.uris = <<>> THEN None ELSE Some(PackageFromUri(resp.uris[1]))
      ELSE None

Responses(paths) ==
    {[kind |-> k, uris |-> <<>>] : k \in {"send_err", "response_err", "ok"}}
      \cup {[kind |-> "ok", uris |-> <<p>>] : p \in paths}

\* ------------------------------------------------------------------ view
filechooser_btn == Some("SelectFile")

\* Variant: the button is pressable whenever a package is selected.
install_btn_AlwaysPressable ==
    IF package = None THEN None
    ELSE Some([on_press |-> Some(package.val)])

install_btn ==
    IF package = None THEN None
    ELSE Some([on_press |-> IF ~is_installed THEN Some(package.val) ELSE None])

\* The package an install request would carry, None when none can be emitted.
InstallOnPress == IF install_btn = None THEN None ELSE install_btn.val.on_press

\* ------------------------------------------------------------------ init
Init ==
    /\ package = None
    /\ is_installed = TRUE
    /\ pid \in {0, 1}
    /\ picks = EmptyBag
    /\ flows = EmptyBag

\* One future of bag b moves from record f to record g.
Replace(b, f, g) == (b (-) SetToBag({f})) (+) SetToBag({g})

\* ----------------------------------------------------------- file picking
Pick(pc, resp, result) == [pc |-> pc, resp |-> resp, result |-> result]

NoResp == [kind |-> "none", uris |-> <<>>]

SelectFile ==
    /\ filechooser_btn # None
    /\ BagCardinality(picks) < MaxPicks
    /\ picks' = picks (+) SetToBag({Pick("picking", NoResp, None)})
    /\ UNCHANGED <<package, is_installed, pid, flows>>

\* The portal answers and the future completes with CheckInstalled(result).
PickerResolves(p, resp) ==
    /\ p.pc = "picking"
    /\ picks' = Replace(picks, p, Pick("check", resp, SelectFileResult(resp)))
    /\ UNCHANGED <<package, is_installed, pid, flows>>

\* Variant: CheckInstalled stores its argument, clearing the package on None.
CheckInstalled_StoresOption(p) ==
    /\ p.pc = "check"
    /\ picks' = Replace(picks, p, IF p.result # None
                                    THEN Pick("update", NoResp, p.result)
                                    ELSE Pick("done", NoResp, None))
    /\ package' = IF p.result = None THEN None ELSE package
    /\ UNCHANGED <<is_installed, pid, flows>>

CheckInstalled(p) ==
    /\ p.pc = "check"
    /\ picks' = Replace(picks, p, IF p.result # None
                                    THEN Pick("update", NoResp, p.result)
                                    ELSE Pick("done", NoResp, None))
    /\ UNCHANGED <<package, is_installed, pid, flows>>

\* Variant: a package already selected is kept.
UpdatePackage_KeepsPackage(p) ==
    /\ p.pc = "update"
    /\ is_installed' = p.result.val.is_installed
    /\ package' = IF package = None THEN Some(p.result.val) ELSE package
    /\ picks' = Replace(picks, p, Pick("done", NoResp, None))
    /\ UNCHANGED <<pid, flows>>

UpdatePackage(p) ==
    /\ p.pc = "update"
    /\ is_installed' = p.result.val.is_installed
    /\ package' = Some(p.result.val)
    /\ picks' = Replace(picks, p, Pick("done", NoResp, None))
    /\ UNCHANGED <<pid, flows>>

\* --------------------------------------------------------- install flows
\* pkg: the Package moved into the future; auth: how the authorization test
\* ended; called: the install_file call was sent to the daemon; result: what
\* grant_permissions returned.
Flow(pc, pkg, auth, called, result) ==
    [pc |-> pc, pkg |-> pkg, auth |-> auth, called |-> called, result |-> result]

Goto(f, pc) == flows' = Replace(flows, f, [f EXCEPT !.pc = pc])

Finish(f, res) == flows' = Replace(flows, f, [f EXCEPT !.pc = "done", !.result = res])

AskPermissions ==
    /\ InstallOnPress # None
    /\ BagCardinality(flows) < MaxFlows
    /\ flows' = flows (+) SetToBag({Flow("connect", InstallOnPress.val, "none", FALSE, "none")})
    /\ UNCHANGED <<package, is_installed, pid, picks>>

\* Connection::system().await?
SystemConnection(f, ok) ==
    /\ f.pc = "connect"
    /\ IF ok THEN Goto(f, "polkit_proxy") ELSE Finish(f, "err")
    /\ UNCHANGED <<package, is_installed, pid, picks>>

\* AuthorityProxy::new().await?, then the pid test and Subject::new_for_owner
AuthorityProxy(f, ok, subject_ok) ==
    /\ f.pc = "polkit_proxy"
    /\ IF ~ok THEN Finish(f, "err")
       ELSE IF pid = 0
         THEN flows' = Replace(flows, f, [f EXCEPT !.pc = "apt_proxy", !.auth = "skipped"])
       ELSE IF ~subject_ok THEN Finish(f, "err")
       ELSE Goto(f, "check_authorization")
    /\ UNCHANGED <<package, is_installed, pid, picks>>

\* Variant: is_authorized is not tested, only an RPC error stops the flow.
CheckAuthorization_IgnoresDenial(f, outcome) ==
    /\ f.pc = "check_authorization"
    /\ IF outcome # "error"
         THEN flows' = Replace(flows, f, [f EXCEPT !.pc = "apt_proxy", !.auth = outcome])
         ELSE flows' = Replace(flows, f, [f EXCEPT !.pc = "done", !.auth = outcome,
                                                   !.result = "err"])
    /\ UNCHANGED <<package, is_installed, pid, picks>>

\* polkit.check_authorization(...).await ... ?.is_authorized, then `if permitted`
CheckAuthorization(f, outcome) ==
    /\ f.pc = "check_authorization"
    /\ IF outcome = "authorized"
         THEN flows' = Replace(flows, f, [f EXCEPT !.pc = "apt_proxy", !.auth = outcome])
         ELSE flows' = Replace(flows, f, [f EXCEPT !.pc = "done", !.auth = outcome,
                                                   !.result = "err"])
    /\ UNCHANGED <<package, is_installed, pid, picks>>

\* install_file: AptDaemonProxy::new().await; on success the install_file
\* call is sent to the daemon.
AptDaemonProxy(f, ok) ==
    /\ f.pc = "apt_proxy"
    /\ IF ok THEN flows' = Replace(flows, f, [f EXCEPT !.pc = "install_file", !.called = TRUE])
             ELSE Finish(f, "ok_false")
    /\ UNCHANGED <<package, is_installed, pid, picks>>

\* proxy.install_file(&package.path, false).await
InstallFileReply(f, ok) ==
    /\ f.pc = "install_file"
    /\ IF ok THEN Goto(f, "transaction_proxy") ELSE Finish(f, "ok_false")
    /\ UNCHANGED <<package, is_installed, pid, picks>>

\* AptTransactionProxy::new(connection, path).await
AptTransactionProxy(f, ok) ==
    /\ f.pc = "transaction_proxy"
    /\ IF ok THEN Goto(f, "run") ELSE Finish(f, "ok_false")
    /\ UNCHANGED <<package, is_installed, pid, picks>>

\* proxy.run().await; an Err of install_file is rewrapped by grant_permissions
TransactionRun(f, ok) ==
    /\ f.pc = "run"
    /\ Finish(f, IF ok THEN "ok_true" ELSE "err")
    /\ UNCHANGED <<package, is_installed, pid, picks>>

\* Variant: done.unwrap_or(false), an Err reported as PackageInstalled(false).
ResultMessage_UnwrapOrFalse(done) ==
    [msg |-> "PackageInstalled", status |-> done = "ok_true"]

\* The closure of Command::perform: Result<bool, Error> -> message
ResultMessage(done) ==
    IF done = "ok_true" THEN [msg |-> "PackageInstalled", status |-> TRUE]
    ELSE IF done = "ok_false" THEN [msg |-> "PackageInstalled", status |-> FALSE]
    ELSE [msg |-> "None", status |-> FALSE]

\* update() on the message of a finished flow: PackageInstalled(status) or None
PackageInstalled(f) ==
    /\ f.pc = "done"
    /\ LET m == ResultMessage(f.result)
       IN  is_installed' = IF m.msg = "PackageInstalled" THEN m.status ELSE is_installed
    /\ flows' = Replace(flows, f, Flow("delivered", f.pkg, "none", FALSE, f.result))
    /\ UNCHANGED <<package, pid, picks>>

\* ------------------------------------------------------- specifications
Picks == BagToSet(picks)
Flows == BagToSet(flows)

Next ==
    \/ SelectFile
    \/ \E p \in Picks, r \in Responses(FilePaths) : PickerResolves(p, r)
    \/ \E p \in Picks : CheckInstalled(p)
    \/ \E p \in Picks : UpdatePackage(p)
    \/ AskPermissions
    \/ \E f \in Flows, ok \in BOOLEAN : SystemConnection(f, ok)
    \/ \E f \in Flows, ok \in BOOLEAN, s \in BOOLEAN : AuthorityProxy(f, ok, s)
    \/ \E f \in Flows, o \in {"authorized", "denied", "error"} : CheckAuthorization(f, o)
    \/ \E f \in Flows, ok \in BOOLEAN : AptDaemonProxy(f, ok)
    \/ \E f \in Flows, ok \in BOOLEAN : InstallFileReply(f, ok)
    \/ \E f \in Flows, ok \in BOOLEAN : AptTransactionProxy(f, ok)
    \/ \E f \in Flows, ok \in BOOLEAN : TransactionRun(f, ok)
    \/ \E f \in Flows : PackageInstalled(f)

Spec == Init /\ [][Next]_vars

\* Responses that hold more than one URI; only the first is used.
SeveralUris == {[kind |-> "ok", uris |-> <<p, q>>] : p \in FilePaths, q \in FilePaths}

\* File picking alone, over every URI path up to MaxPathLen.
NextPick ==
    \/ SelectFile
    \/ \E p \in Picks, r \in Responses(UriPaths) \cup SeveralUris : PickerResolves(p, r)
    \/ \E p \in Picks : CheckInstalled(p)
    \/ \E p \in Picks : UpdatePackage(p)

SpecPick == Init /\ [][NextPick]_vars

\* ======================================================== properties
\* Phases of the specification's state table, read off a flow's position.
AwaitingAuthorization == {"connect", "polkit_proxy", "check_authorization"}
Installing == {"apt_proxy", "install_file", "transaction_proxy", "run"}

\* The steps in which update() handles a message of a finished future.
DonePick == Pick("done", NoResp, None)
Delivered(f) == Flow("delivered", f.pkg, "none", FALSE, f.result)
PickMoves(p, q) == p # q /\ picks' = Replace(picks, p, q)
Delivers(f) == f.pc = "done" /\ flows' = Replace(flows, f, Delivered(f))
Updates(p) == p.pc = "update" /\ PickMoves(p, DonePick)

InFlightFlows == [f \in {g \in Flows : g.pc # "delivered"} |-> flows[f]]
Failed(f) == f.pc = "delivered" /\ f.result # "ok_true"
Installed == package # None /\ is_installed

\* C1: every RPC failure of an install flow surfaces as a Failed state that
\* can be told apart from the state before the request (package selected,
\* not installed): handling the result of a failed flow never leaves the
\* model showing the requested package as selected and not installed.
C1_FailureSurfaces ==
    [][\A f \in Flows :
          Delivers(f) /\ f.result # "ok_true"
            => ~(package' = Some(f.pkg) /\ is_installed' = FALSE)]_vars

\* C2: the install-file call is sent only after authorization was granted,
\* or skipped because the process id is 0; a flow whose authorization was
\* denied or failed has returned an error, has sent no install-file call and
\* is in neither the Installing phase nor a non-error result.
C2_InstallOnlyIfAuthorized ==
    \A f \in Flows :
        /\ f.called \/ f.pc \in Installing => f.auth \in {"authorized", "skipped"}
        /\ f.pc \in AwaitingAuthorization => ~f.called /\ f.auth = "none"
        /\ f.auth = "skipped" => pid = 0
        /\ f.auth = "authorized" => pid # 0
        /\ f.auth \in {"denied", "error"}
             => f.pc = "done" /\ f.result = "err" /\ ~f.called

C2_Witness ==
    /\ \E f \in Flows : f.auth = "denied" /\ f.pc = "done"
    /\ \E f \in Flows : f.auth = "authorized" /\ f.called

\* C3: an authorized flow that ends without a successful transaction run
\* (proxy creation, install-file call, transaction proxy or run failed) ends
\* with an error result, never with a non-error one.
C3_InstallingErrorsAreErr ==
    \A f \in Flows :
        f.pc = "done" /\ f.auth \in {"authorized", "skipped"}
          => f.result \in {"ok_true", "err"}

\* C4: at most one install flow is in flight (requested, result message not
\* yet handled) at any time.
C4_SingleFlowInFlight == BagCardinality(InFlightFlows) <= 1

\* name is the final component of path: the last maximal run of characters
\* other than "/", or empty when there is none.
IsFinalComponent(name, path) ==
    /\ \A i \in 1..Len(name) : name[i] # "/"
    /\ \/ name = <<>> /\ \A i \in 1..Len(path) : path[i] = "/"
       \/ /\ name # <<>>
          /\ \E i \in 1..Len(path) :
                /\ i + Len(name) - 1 <= Len(path)
                /\ SubSeq(path, i, i + Len(name) - 1) = name
                /\ i = 1 \/ path[i - 1] = "/"
                /\ \A j \in (i + Len(name))..Len(path) : path[j] = "/"

\* C5: a pick that resolves with at least one URI yields the package of the
\* first URI's path, named by the path's final component and not installed;
\* that package reaches UpdatePackage unchanged, after which it is the
\* selected package, is_installed is false and the install request is
\* enabled for it.  Any other outcome yields None, and handling
\* CheckInstalled(None) leaves package and is_installed unchanged.
C5_PickSelectsFile ==
    /\ [](\A p \in Picks :
            /\ p.pc = "check" =>
                 IF p.resp.kind = "ok" /\ p.resp.uris # <<>>
                   THEN /\ p.result # None
                        /\ p.result.val.path = p.resp.uris[1]
                        /\ IsFinalComponent(p.result.val.name, p.result.val.path)
                        /\ ~p.result.val.is_installed
                   ELSE p.result = None
            /\ p.pc = "update" => p.result # None)
    /\ [][\A p \in Picks :
            /\ p.pc = "check" /\ p.result # None
                 => \A q \in BagToSet(picks') :
                       PickMoves(p, q) => q.pc = "update" /\ q.result = p.result
            /\ p.pc = "check" /\ p.result = None /\ PickMoves(p, DonePick)
                 => UNCHANGED <<package, is_installed>>
            /\ Updates(p)
                 => /\ package' = Some(p.result.val)
                    /\ IsFinalComponent(package'.val.name, package'.val.path)
                    /\ is_installed' = FALSE
                    /\ InstallOnPress' = package']_vars

C5_Witness ==
    /\ package = Some([path |-> <<"/", "a", "/">>, name |-> <<"a">>,
                       is_installed |-> FALSE])
    /\ ~is_installed
    /\ \E p \in Picks : p = DonePick

\* C6 as stated: once Installed, nothing changes package or is_installed.
C6_InstalledIsTerminal ==
    [][Installed => UNCHANGED <<package, is_installed>>]_vars

\* C6, amended: in Installed no install request can be issued, and package
\* and is_installed change only when UpdatePackage for a newly picked file
\* is handled (the picked file becomes the package, not installed) or when
\* PackageInstalled(false) of another install flow still in flight is
\* handled (is_installed becomes false); every other message leaves both
\* unchanged.
C6_InstalledLeftOnlyByPickOrFalse ==
    [][Installed =>
          /\ InstallOnPress = None
          /\ BagCardinality(flows') = BagCardinality(flows)
          /\ \/ UNCHANGED <<package, is_installed>>
             \/ \E p \in Picks :
                   Updates(p) /\ package' = Some(p.result.val) /\ ~is_installed'
             \/ \E f \in Flows :
                   /\ Delivers(f) /\ f.result = "ok_false"
                   /\ package' = package /\ ~is_installed']_vars

C6_Witness ==
    /\ Installed
    /\ \E f \in Flows : f.pc = "delivered" /\ f.result = "ok_true" /\ package = Some(f.pkg)
    /\ \E p \in Picks : p.pc \in {"check", "update"}

\* C7: the file chooser button is enabled in every state, and once an
\* installation has failed, handling UpdatePackage for a newly picked file
\* makes it the selected package with is_installed false and the install
\* request enabled for it.
C7_RestartAfterFailure ==
    /\ [](filechooser_btn = Some("SelectFile"))
    /\ [][\A p \in Picks :
            (\E f \in Flows : Failed(f)) /\ Updates(p)
              => /\ package' = Some(p.result.val)
                 /\ is_installed' = FALSE
                 /\ InstallOnPress' = Some(p.result.val)]_vars

C7_Witness ==
    /\ package # None /\ ~is_installed
    /\ \E f \in Flows : Failed(f) /\ package # Some(f.pkg)
    /\ \E g \in Flows : g.pc = "connect" /\ package = Some(g.pkg)

\* C8: whenever a package is selected and is_installed is true, a
\* transaction for the selected package's path has run successfully.
C8_InstalledMeansThisPackage ==
    Installed =>
        \E f \in Flows : f.result = "ok_true" /\ f.pkg.path = package.val.path

\* C9: the view offers an install request exactly when a package is selected
\* and is_installed is false, the request carries the selected package, and
\* an install flow is started only from such a state, for that package.
C9_InstallRequestGuard ==
    /\ [](/\ InstallOnPress # None <=> (package # None /\ ~is_installed)
          /\ InstallOnPress # None => InstallOnPress = package
          /\ package = None => install_btn = None)
    /\ [][BagCardinality(flows') # BagCardinality(flows)
            => /\ package # None /\ ~is_installed
               /\ flows' = flows (+) SetToBag(
                     {Flow("connect", package.val, "none", FALSE, "none")})]_vars

C9_Witness ==
    /\ \E f \in Flows : f.pc = "connect" /\ package = Some(f.pkg) /\ ~is_installed
    /\ \E f \in Flows : f.pc = "delivered" /\ f.result = "ok_false"

====
